---- MODULE Spec2Model ----
(***************************************************************************)
(* Lazy module proxies of transformer_engine (lazy_import.py) and the      *)
(* selection of the proxy variant by TE_LAZY_IMPORT_FLAVOR.                *)
(*                                                                         *)
(* The state is the interpreter state the proxies read and write: the      *)
(* environment variable, the name LazyImport, sys.modules, the module      *)
(* objects and their __dict__, the proxy objects (class, __dict__, the     *)
(* fields variant B adds), the namespaces variant B writes, and the        *)
(* outcome of the operation performed last.                                *)
(***************************************************************************)
EXTENDS Integers, Sequences, FiniteSets, TLC

\* ------------------------------------------------------------------ bounds

\* Proxy objects alive at once.
MaxProxies == 2

\* Requests made in one run, after the import of lazy_import.
MaxRequests == 5

\* ------------------------------------------------------------- the program

VARIABLES
    environ,        \* os.environ["TE_LAZY_IMPORT_FLAVOR"], a string or UNSET
    pc,             \* "start", "ready" (lazy_import imported), "failed"
    LazyImport,     \* what the name LazyImport is bound to: 0 unbound, 1 A, 2 B, 3 C
    init_error,     \* the exception that ended the import of lazy_import
    installed,      \* module names the finders can locate
    sys_modules,    \* the module registry: name -> object reference
    real_dict,      \* __dict__ of the module object the import system made for a name
    exec_count,     \* how often each module's body was executed
    proxies,        \* the proxy objects
    machinery,      \* per proxy: how often it entered the import machinery
    ns,             \* namespaces: globals of lazy_import and of the creating package
    last,           \* outcome of the operation performed last
    requests,       \* number of requests made so far
    variants,       \* the three variants run side by side on the same requests
    threads,        \* per execution context: where it is in an attribute read
    import_lock     \* the context importing a module, 0 when there is none

vars == <<environ, pc, LazyImport, init_error, installed, sys_modules, real_dict,
          exec_count, proxies, machinery, ns, last, requests, variants,
          threads, import_lock>>

\* ------------------------------------------------------------------- names

\* A dotted module name is the sequence of its components.
ABC == <<"a", "b", "c">>
NX  == <<"nx">>

\* Names proxies are created for.
ProxyNames == {ABC, NX}

Prefix(name, k) == SubSeq(name, 1, k)

\* Keys of the registry: every name and every parent package of one.
RegKeys == UNION {{Prefix(n, k) : k \in 1..Len(n)} : n \in ProxyNames}

\* Modules present on the import path when the process starts.
InstalledAtStart == {<<"a">>, <<"a", "b">>, ABC}

\* name.split(".")[-1]
LocalName(name) == name[Len(name)]

LocalNames == {LocalName(n) : n \in ProxyNames}

ProxyIds == 1..MaxProxies

\* ------------------------------------------------------------------ values

IntV(i)   == [k |-> "int",  i |-> i, s |-> <<>>]
StrV(s)   == [k |-> "str",  i |-> 0, s |-> s]
SpecV(s)  == [k |-> "spec", i |-> 0, s |-> s]     \* a ModuleSpec for name s
FileV(s)  == [k |-> "file", i |-> 0, s |-> s]     \* the path of module s
NoneV     == [k |-> "None", i |-> 0, s |-> <<>>]
ABSENT    == [k |-> "absent", i |-> 0, s |-> <<>>]
\* "<module 'N' will be lazily loaded>"
PendingRepr(s) == [k |-> "repr_pending", i |-> 0, s |-> s]
\* "<module 'N' from '<file of N>'>"
ModuleRepr(s)  == [k |-> "repr_module", i |-> 0, s |-> s]
\* "<module 'N'>"
PlainRepr(s)   == [k |-> "repr_plain", i |-> 0, s |-> s]

\* Attribute names. "attr" is defined by the module bodies, "new" is only
\* ever added afterwards, "zzz" is never defined.
Attrs == {"__name__", "__spec__", "__file__", "attr", "new", "zzz"}

\* Attributes client code reads.
ReadAttrs == {"__name__", "attr", "new", "zzz"}

EmptyDict == [x \in Attrs |-> ABSENT]

Keys(d) == {x \in Attrs : d[x] # ABSENT}

\* dict.update
Update(d, e) == [x \in Attrs |-> IF e[x] # ABSENT THEN e[x] ELSE d[x]]

\* What executing the body of module `name` leaves in its __dict__, with the
\* attributes the import system sets.
ModuleSource(name) ==
    [x \in Attrs |->
        CASE x = "__name__" -> StrV(name)
          [] x = "__spec__" -> SpecV(name)
          [] x = "__file__" -> FileV(name)
          [] x = "attr"     -> IF name \in ProxyNames THEN IntV(42) ELSE ABSENT
          [] OTHER          -> ABSENT]

\* types.ModuleType.__init__(name): __name__ set, __spec__ None, no __file__.
NewModuleDict(name) ==
    [x \in Attrs |->
        CASE x = "__name__" -> StrV(name)
          [] x = "__spec__" -> NoneV
          [] OTHER          -> ABSENT]

\* ------------------------------------------------------- object references

NoRef        == [kind |-> "none",  name |-> <<>>, idx |-> 0]
RealRef(n)   == [kind |-> "real",  name |-> n,    idx |-> 0]
ProxyRef(i)  == [kind |-> "proxy", name |-> <<>>, idx |-> i]

NoProxy ==
    [cls |-> "none", name |-> <<>>, dict |-> EmptyDict, module |-> NoRef,
     local_name |-> "", parent_module_globals |-> ""]

NoResult ==
    [op |-> "none", proxy |-> 0, attr |-> "", name |-> <<>>, exc |-> "none",
     value |-> ABSENT, names |-> {}, was_resolved |-> FALSE, looked |-> FALSE,
     imports |-> 0, changed |-> {}, executed |-> {}, given |-> ""]

\* --------------------------------------------------------------- selection

UNSET == <<"unset">>

\* Values of TE_LAZY_IMPORT_FLAVOR, each a sequence of characters.
EnvValues ==
    { <<"1">>, <<"2">>, <<"3">>, <<" ", "9">>, <<"0">>, <<"4">>, <<"9", "9">>,
      <<"-", "1">>, <<"1", "-">>, <<"x">>, <<>> }

DigitValue(c) ==
    CASE c = "0" -> 0 [] c = "1" -> 1 [] c = "2" -> 2 [] c = "3" -> 3
      [] c = "4" -> 4 [] c = "9" -> 9 [] OTHER -> -1

RECURSIVE Strip(_)
\* str.strip() of whitespace
Strip(s) ==
    IF s = <<>> THEN s
    ELSE IF Head(s) = " " THEN Strip(Tail(s))
    ELSE IF s[Len(s)] = " " THEN Strip(SubSeq(s, 1, Len(s) - 1))
    ELSE s

RECURSIVE Digits(_, _)
\* The value of a digit string read after `acc`, -1 when a character is no digit.
Digits(s, acc) ==
    IF s = <<>> THEN acc
    ELSE IF DigitValue(Head(s)) < 0 THEN -1
    ELSE Digits(Tail(s), 10 * acc + DigitValue(Head(s)))

\* int(s): [ok, value]; ok is FALSE for "invalid literal for int()".
int(s) ==
    LET t    == Strip(s)
        neg  == t # <<>> /\ Head(t) = "-"
        body == IF t # <<>> /\ Head(t) \in {"-", "+"} THEN Tail(t) ELSE t
        v    == IF body = <<>> THEN -1 ELSE Digits(body, 0)
    IN  IF v < 0 THEN [ok |-> FALSE, value |-> 0]
        ELSE [ok |-> TRUE, value |-> IF neg THEN 0 - v ELSE v]

\* os.environ.get("TE_LAZY_IMPORT_FLAVOR", "1")
EnvironGet == IF environ = UNSET THEN <<"1">> ELSE environ

\* A selection that falls back to variant A instead of raising.
SelectFlavorFallback(parsed) ==
    IF ~parsed.ok THEN [flavor |-> 1, exc |-> "none", shown |-> <<>>, bad |-> 0]
    ELSE IF parsed.value \in {2, 3}
         THEN [flavor |-> parsed.value, exc |-> "none", shown |-> <<>>, bad |-> 0]
         ELSE [flavor |-> 1, exc |-> "none", shown |-> <<>>, bad |-> 0]

\* The module-level code of lazy_import.py, lines 134-145: what LazyImport is
\* bound to (0 when the import raises) and the ValueError raised, if any,
\* with the text or the number its message shows.
SelectFlavor(parsed) ==
    IF ~parsed.ok
    THEN [flavor |-> 0, exc |-> "ValueError", shown |-> EnvironGet, bad |-> 0]
    ELSE IF parsed.value = 1 THEN [flavor |-> 1, exc |-> "none", shown |-> <<>>, bad |-> 0]
    ELSE IF parsed.value = 2 THEN [flavor |-> 2, exc |-> "none", shown |-> <<>>, bad |-> 0]
    ELSE IF parsed.value = 3 THEN [flavor |-> 3, exc |-> "none", shown |-> <<>>, bad |-> 0]
    ELSE [flavor |-> 0, exc |-> "ValueError", shown |-> <<>>, bad |-> parsed.value]

\* ------------------------------------------------------------------ worlds

\* The part of the state one variant works on.
World ==
    [installed |-> installed, sys_modules |-> sys_modules, real_dict |-> real_dict,
     exec_count |-> exec_count, proxies |-> proxies, machinery |-> machinery,
     ns |-> ns, last |-> last]

InitWorld ==
    [installed   |-> InstalledAtStart,
     sys_modules |-> [n \in RegKeys |-> NoRef],
     real_dict   |-> [n \in RegKeys |-> EmptyDict],
     exec_count  |-> [n \in RegKeys |-> 0],
     proxies     |-> [i \in ProxyIds |-> NoProxy],
     machinery   |-> [i \in ProxyIds |-> 0],
     ns          |-> [g \in {"lazy_import", "package"} |-> [l \in LocalNames |-> NoRef]],
     last        |-> NoResult]

\* __dict__ of the object a reference denotes.
DictOf(w, ref) ==
    IF ref.kind = "real" THEN w.real_dict[ref.name]
    ELSE IF ref.kind = "proxy" THEN w.proxies[ref.idx].dict
    ELSE EmptyDict

\* Whether a proxy has been through its resolution: variant A has switched
\* class, variant B has copied the module's __dict__, variant C has run the
\* module body.
Resolved(p) ==
    \/ p.cls = "LoadedLazyImport"
    \/ p.cls = "_LazyImport_FlavorB" /\ p.dict["__spec__"].k = "spec"
    \/ p.cls = "module"

\* The module object a resolved proxy stands for: the one variant A kept in
\* its class, the one import_module returns to variant B, the object itself
\* for variant C.
TargetOf(w, i) ==
    CASE w.proxies[i].cls = "LoadedLazyImport"    -> w.proxies[i].module
      [] w.proxies[i].cls = "_LazyImport_FlavorB" -> w.sys_modules[w.proxies[i].name]
      [] w.proxies[i].cls = "module"              -> ProxyRef(i)
      [] OTHER                                    -> NoRef

\* ------------------------------------------------------ the import system

\* The import system finds module n, creates its module object, registers
\* it and executes its body.
LoadReal(w, n) ==
    [w EXCEPT !.sys_modules[n] = RealRef(n),
              !.real_dict[n]   = ModuleSource(n),
              !.exec_count[n]  = @ + 1]

RECURSIVE ImportFrom(_, _, _)
\* __import__(name) / importlib.import_module(name), from component k on:
\* each parent package and then the module, skipping what the registry
\* holds; [w, exc]. No registry entry is a lazy module of a parent package
\* here, since proxies are made for leaf names only.
ImportFrom(w, name, k) ==
    IF k > Len(name) THEN [w |-> w, exc |-> "none"]
    ELSE LET n == Prefix(name, k)
         IN  IF w.sys_modules[n] # NoRef THEN ImportFrom(w, name, k + 1)
             ELSE IF n \in w.installed THEN ImportFrom(LoadReal(w, n), name, k + 1)
             ELSE [w |-> w, exc |-> "ModuleNotFoundError"]

Import(w, name) == ImportFrom(w, name, 1)

\* The error kind of the statement `import name` in world w.
DirectImportError(w, name) == Import(w, name).exc

\* module.__getattribute__(x) on the module object `ref`.
ModuleGetAttr(w, ref, x) ==
    IF DictOf(w, ref)[x] # ABSENT
    THEN [exc |-> "none", value |-> DictOf(w, ref)[x]]
    ELSE [exc |-> "AttributeError", value |-> ABSENT]

\* A forwarding that swallows the failed lookup and returns None.
ForwardDefault(r, x) ==
    IF r.exc # "none"
    THEN [w |-> r.w, exc |-> r.exc, value |-> ABSENT, looked |-> FALSE]
    ELSE IF ModuleGetAttr(r.w, r.module, x).exc = "AttributeError"
    THEN [w |-> r.w, exc |-> "none", value |-> NoneV, looked |-> TRUE]
    ELSE [w |-> r.w, exc |-> "none",
          value |-> ModuleGetAttr(r.w, r.module, x).value, looked |-> TRUE]

\* `return module.__getattribute__(x)` / `return getattr(module, item)` after
\* the step r = [w, exc, module] that produced the module; an exception of
\* that step reaches the caller before any attribute is looked up.
Forward(r, x) ==
    IF r.exc # "none"
    THEN [w |-> r.w, exc |-> r.exc, value |-> ABSENT, looked |-> FALSE]
    ELSE [w |-> r.w, exc |-> ModuleGetAttr(r.w, r.module, x).exc,
          value |-> ModuleGetAttr(r.w, r.module, x).value, looked |-> TRUE]

\* `return dir(module)` after the step r = [w, exc, module].
Names(r) ==
    IF r.exc # "none" THEN [w |-> r.w, exc |-> r.exc, names |-> {}]
    ELSE [w |-> r.w, exc |-> "none", names |-> Keys(DictOf(r.w, r.module))]

\* --------------------------------------------------------------- variant A

\* _LazyImport_FlavorA(name): types.ModuleType.__init__ only.
A_new(w, i, name) ==
    [w EXCEPT !.proxies[i] =
        [cls |-> "_LazyImport_FlavorA", name |-> name, dict |-> NewModuleDict(name),
         module |-> NoRef, local_name |-> "", parent_module_globals |-> ""]]

\* A switch that keeps what `__import__(name)` returns, the top-level package.
A_switch_toplevel(r, i) ==
    IF r.exc # "none" THEN [w |-> r.w, exc |-> r.exc, module |-> NoRef]
    ELSE [w |-> [r.w EXCEPT
                   !.proxies[i].cls = "LoadedLazyImport",
                   !.proxies[i].module = r.w.sys_modules[Prefix(r.w.proxies[i].name, 1)]],
          exc |-> "none", module |-> r.w.sys_modules[Prefix(r.w.proxies[i].name, 1)]]

\* Lines 67-76 after `__import__(name)` ended as r = [w, exc]: the full name
\* is looked up in sys.modules and the class of the proxy is switched.
A_switch(r, i) ==
    IF r.exc # "none" THEN [w |-> r.w, exc |-> r.exc, module |-> NoRef]
    ELSE [w |-> [r.w EXCEPT
                   !.proxies[i].cls = "LoadedLazyImport",
                   !.proxies[i].module = r.w.sys_modules[r.w.proxies[i].name]],
          exc |-> "none", module |-> r.w.sys_modules[r.w.proxies[i].name]]

\* Lines 59-76 of __getattribute__; [w, exc, module].
A_resolve(w, i) ==
    A_switch(Import([w EXCEPT !.machinery[i] = @ + 1], w.proxies[i].name), i)

\* _LazyImport_FlavorA.__getattribute__(self, x); [w, exc, value, looked].
A_getattribute(w, i, x) == Forward(A_resolve(w, i), x)

\* LoadedLazyImport.__getattribute__ = module.__getattribute__
Loaded_getattribute(w, i, x) ==
    Forward([w |-> w, exc |-> "none", module |-> w.proxies[i].module], x)

\* --------------------------------------------------------------- variant B

\* A constructor that defaults to the namespace of the calling package.
B_new_caller_globals(w, i, name, pg) ==
    [w EXCEPT !.proxies[i] =
        [cls |-> "_LazyImport_FlavorB", name |-> name, dict |-> NewModuleDict(name),
         module |-> NoRef, local_name |-> LocalName(name),
         parent_module_globals |-> IF pg = "" THEN "package" ELSE pg]]

\* _LazyImport_FlavorB.__init__(name, parent_module_globals); pg is "" for
\* None, and globals() is then the namespace of lazy_import.
B_new(w, i, name, pg) ==
    [w EXCEPT !.proxies[i] =
        [cls |-> "_LazyImport_FlavorB", name |-> name, dict |-> NewModuleDict(name),
         module |-> NoRef, local_name |-> LocalName(name),
         parent_module_globals |-> IF pg = "" THEN "lazy_import" ELSE pg]]

\* Lines 105-112 of _load after `importlib.import_module(self.__name__)`
\* ended as r = [w, exc]: the module is written into the parent namespace and
\* its __dict__ copied into the proxy's.
B_rebind(r, i) ==
    IF r.exc # "none" THEN [w |-> r.w, exc |-> r.exc, module |-> NoRef]
    ELSE [w |-> [r.w EXCEPT
                   !.ns[r.w.proxies[i].parent_module_globals][r.w.proxies[i].local_name] =
                       r.w.sys_modules[r.w.proxies[i].name],
                   !.proxies[i].dict =
                       Update(@, DictOf(r.w, r.w.sys_modules[r.w.proxies[i].name]))],
          exc |-> "none", module |-> r.w.sys_modules[r.w.proxies[i].name]]

\* _LazyImport_FlavorB._load; [w, exc, module].
B_load(w, i) ==
    B_rebind(Import([w EXCEPT !.machinery[i] = @ + 1], w.proxies[i].name), i)

\* Attribute x of a variant-B proxy: the proxy's own __dict__ first, and
\* __getattr__ (lines 114-116) only when that lookup fails.
B_getattr(w, i, x) ==
    IF w.proxies[i].dict[x] # ABSENT
    THEN [w |-> w, exc |-> "none", value |-> w.proxies[i].dict[x], looked |-> FALSE]
    ELSE Forward(B_load(w, i), x)

\* An enumeration answered from the proxy's own __dict__, without _load.
B_dir_unloaded(w, i) ==
    Names([w |-> w, exc |-> "none", module |-> ProxyRef(i)])

\* _LazyImport_FlavorB.__dir__; [w, exc, names].
B_dir(w, i) == Names(B_load(w, i))

\* --------------------------------------------------------------- variant C

\* The module attributes importlib.util.module_from_spec sets from the spec.
SpecDict(name) ==
    [x \in Attrs |->
        CASE x = "__name__" -> StrV(name)
          [] x = "__spec__" -> SpecV(name)
          [] x = "__file__" -> FileV(name)
          [] OTHER          -> ABSENT]

\* importlib.util.LazyLoader's _LazyModule.__getattribute__ up to its final
\* getattr: the class is reset, the module body runs in the module's own
\* __dict__, and the registry must still hold this object; [w, exc, module].
C_load(w, i) ==
    [w |-> [w EXCEPT !.proxies[i].cls  = "module",
                     !.proxies[i].dict = Update(@, ModuleSource(w.proxies[i].name)),
                     !.exec_count[w.proxies[i].name] = @ + 1,
                     !.machinery[i] = @ + 1],
     exc |-> IF w.sys_modules[w.proxies[i].name] # ProxyRef(i)
             THEN "ValueError" ELSE "none",
     module |-> ProxyRef(i)]

\* `self.__class__ = types.ModuleType`, the first statement of
\* _LazyModule.__getattribute__: the object stops triggering loads.
C_class_reset(w, i) ==
    [w EXCEPT !.proxies[i].cls = "module", !.machinery[i] = @ + 1]

\* `self.__spec__.loader.exec_module(self)`: the module body runs in the
\* object's own __dict__, outside the import system and its locks.
C_exec_module(w, i) ==
    [w EXCEPT !.proxies[i].dict = Update(@, ModuleSource(w.proxies[i].name)),
              !.exec_count[w.proxies[i].name] = @ + 1]

\* The check made after the load: another object registered under the name.
C_substituted(w, i) == w.sys_modules[w.proxies[i].name] # ProxyRef(i)

\* Attribute x of a lazy module; [w, exc, value, looked].
C_getattribute(w, i, x) == Forward(C_load(w, i), x)

\* Attribute x of a plain module object.
Module_getattribute(w, i, x) ==
    Forward([w |-> w, exc |-> "none", module |-> ProxyRef(i)], x)

\* Whether the finders locate `name` once the step r = [w, exc] is through.
Found(r, name) ==
    [w |-> r.w, exc |-> r.exc, found |-> r.exc = "none" /\ name \in r.w.installed]

\* importlib.util.find_spec(name), line 125: the spec of the registered
\* module when the registry holds the name (reading __spec__ from a lazy
\* module loads it), else the parent package is imported and the finders are
\* asked; [w, exc, found].
C_find_spec(w, name) ==
    LET cur == w.sys_modules[name]
    IN  IF cur.kind = "proxy" /\ w.proxies[cur.idx].cls = "_LazyModule"
        THEN Found(C_load(w, cur.idx), name)
        ELSE IF cur.kind # "none"
        THEN [w |-> w, exc |-> "none", found |-> TRUE]
        ELSE IF Len(name) > 1
        THEN Found(Import(w, Prefix(name, Len(name) - 1)), name)
        ELSE Found([w |-> w, exc |-> "none"], name)

\* Lines 126-131 once find_spec ended as f = [w, exc, found]: a spec of None
\* makes line 126 raise AttributeError, else the new lazy module is
\* registered under the name; [w, exc].
C_register(f, i, name) ==
    IF f.exc # "none" THEN [w |-> f.w, exc |-> f.exc]
    ELSE IF ~f.found THEN [w |-> f.w, exc |-> "AttributeError"]
    ELSE [w |-> [f.w EXCEPT
                   !.proxies[i] =
                       [cls |-> "_LazyModule", name |-> name,
                        dict |-> SpecDict(name), module |-> NoRef,
                        local_name |-> "", parent_module_globals |-> ""],
                   !.sys_modules[name] = ProxyRef(i)],
          exc |-> "none"]

\* _LazyImport_FlavorC(name), the object it returns being proxy i; [w, exc].
C_new(w, i, name) == C_register(C_find_spec(w, name), i, name)

\* ------------------------------------------- operations on a proxy object

\* getattr(proxy, x): the __getattribute__ / __getattr__ of the proxy's
\* current class; [w, exc, value, looked].
GetAttribute(w, i, x) ==
    CASE w.proxies[i].cls = "_LazyImport_FlavorA" -> A_getattribute(w, i, x)
      [] w.proxies[i].cls = "LoadedLazyImport"    -> Loaded_getattribute(w, i, x)
      [] w.proxies[i].cls = "_LazyImport_FlavorB" -> B_getattr(w, i, x)
      [] w.proxies[i].cls = "_LazyModule"         -> C_getattribute(w, i, x)
      [] OTHER                                    -> Module_getattribute(w, i, x)

\* repr() of the module object `ref` itself.
RealRepr(w, ref) ==
    IF DictOf(w, ref)["__spec__"].k = "spec"
    THEN ModuleRepr(DictOf(w, ref)["__spec__"].s)
    ELSE IF DictOf(w, ref)["__file__"].k = "file"
    THEN ModuleRepr(DictOf(w, ref)["__name__"].s)
    ELSE PlainRepr(DictOf(w, ref)["__name__"].s)

\* The end of ModuleType.__repr__: f is the outcome of reading __file__.
ReprFromFile(f, name) ==
    IF f.exc = "AttributeError"
    THEN [w |-> f.w, exc |-> "none", value |-> PlainRepr(name)]
    ELSE IF f.exc # "none" THEN [w |-> f.w, exc |-> f.exc, value |-> ABSENT]
    ELSE [w |-> f.w, exc |-> "none", value |-> ModuleRepr(name)]

\* ModuleType.__repr__ without a spec: n is the outcome of reading __name__.
ReprFromName(n, i) ==
    IF n.exc # "none" THEN [w |-> n.w, exc |-> n.exc, value |-> ABSENT]
    ELSE ReprFromFile(GetAttribute(n.w, i, "__file__"), n.value.s)

\* ModuleType.__repr__: s is the outcome of reading __spec__.
ReprFromSpec(s, i) ==
    IF s.exc \notin {"none", "AttributeError"}
    THEN [w |-> s.w, exc |-> s.exc, value |-> ABSENT]
    ELSE IF s.exc = "none" /\ s.value.k = "spec"
    THEN [w |-> s.w, exc |-> "none", value |-> ModuleRepr(s.value.s)]
    ELSE ReprFromName(GetAttribute(s.w, i, "__name__"), i)

\* types.ModuleType.__repr__, which variants B and C inherit: built from
\* __spec__ when that is set, else from __name__ and __file__, each read
\* with getattr on the object; [w, exc, value].
ModuleType_repr(w, i) == ReprFromSpec(GetAttribute(w, i, "__spec__"), i)

\* repr(proxy); [w, exc, value].
ReprOf(w, i) ==
    CASE w.proxies[i].cls = "_LazyImport_FlavorA" ->
            [w |-> w, exc |-> "none",
             value |-> PendingRepr(w.proxies[i].dict["__name__"].s)]
      [] w.proxies[i].cls = "LoadedLazyImport" ->
            [w |-> w, exc |-> "none", value |-> RealRepr(w, w.proxies[i].module)]
      [] OTHER -> ModuleType_repr(w, i)

\* dir(proxy); [w, exc, names]. Variant A inherits ModuleType.__dir__, which
\* reads __dict__ through __getattribute__.
DirOf(w, i) ==
    CASE w.proxies[i].cls = "_LazyImport_FlavorA" -> Names(A_resolve(w, i))
      [] w.proxies[i].cls = "LoadedLazyImport" ->
            Names([w |-> w, exc |-> "none", module |-> w.proxies[i].module])
      [] w.proxies[i].cls = "_LazyImport_FlavorB" -> B_dir(w, i)
      [] w.proxies[i].cls = "_LazyModule" -> Names(C_load(w, i))
      [] OTHER -> Names([w |-> w, exc |-> "none", module |-> ProxyRef(i)])

\* A reload that runs the lazy loader again and leaves the module lazy.
ReloadNamedLazy(n, i) ==
    IF n.exc = "AttributeError" THEN [w |-> n.w, exc |-> "TypeError"]
    ELSE IF n.exc # "none" THEN [w |-> n.w, exc |-> n.exc]
    ELSE IF n.w.sys_modules[n.value.s] # ProxyRef(i)
    THEN [w |-> n.w, exc |-> "ImportError"]
    ELSE [w |-> [n.w EXCEPT !.proxies[i].cls = "_LazyModule"], exc |-> "none"]

\* The end of importlib.reload: n is the outcome of finding the name. An
\* object that is not the registry's entry for the name is refused with
\* ImportError, any other is executed again in place; [w, exc].
ReloadNamed(n, i) ==
    IF n.exc = "AttributeError" THEN [w |-> n.w, exc |-> "TypeError"]
    ELSE IF n.exc # "none" THEN [w |-> n.w, exc |-> n.exc]
    ELSE IF n.w.sys_modules[n.value.s] # ProxyRef(i)
    THEN [w |-> n.w, exc |-> "ImportError"]
    ELSE [w |-> [n.w EXCEPT
                   !.proxies[i].dict = Update(@, ModuleSource(n.value.s)),
                   !.exec_count[n.value.s] = @ + 1],
          exc |-> "none"]

\* importlib.reload once proxy.__spec__ was read with outcome s: the name is
\* __spec__.name, or proxy.__name__ when __spec__ has no name.
ReloadFromSpec(s, i) ==
    IF s.exc \notin {"none", "AttributeError"} THEN [w |-> s.w, exc |-> s.exc]
    ELSE IF s.exc = "none" /\ s.value.k = "spec"
    THEN ReloadNamed([w |-> s.w, exc |-> "none", value |-> StrV(s.value.s)], i)
    ELSE ReloadNamed(GetAttribute(s.w, i, "__name__"), i)

\* importlib.reload(proxy); [w, exc].
ReloadOf(w, i) == ReloadFromSpec(GetAttribute(w, i, "__spec__"), i)

\* ------------------------------------------------- requests and outcomes

\* World w1 with the outcome of a request made in world w0 recorded: what the
\* caller got, whether the proxy was resolved before, how often the proxy
\* entered the import machinery, which registry entries changed and which
\* module bodies ran. `given` is the namespace a create request passed as
\* parent_module_globals, "" for none.
Outcome(w0, w1, op, i, x, name, exc, value, names, looked) ==
    [w1 EXCEPT !.last =
        [op |-> op, proxy |-> i, attr |-> x, name |-> name, exc |-> exc,
         value |-> value, names |-> names,
         was_resolved |-> Resolved(w0.proxies[i]),
         looked |-> looked,
         imports |-> w1.machinery[i] - w0.machinery[i],
         changed |-> {n \in RegKeys : w1.sys_modules[n] # w0.sys_modules[n]},
         executed |-> {n \in RegKeys : w1.exec_count[n] # w0.exec_count[n]},
         given |-> ""]]

\* The assignment `x = LazyImport(name)` of the package's __init__: when the
\* call r = [w, exc] returned, the package namespace binds the new object.
Bind(w0, r, i, name) ==
    Outcome(w0,
            IF r.exc = "none"
            THEN [r.w EXCEPT !.ns["package"][LocalName(name)] = ProxyRef(i)]
            ELSE r.w,
            "create", i, "", name, r.exc, ABSENT, {}, FALSE)

\* x = LazyImport(name) in the package's __init__ with variant f selected,
\* the new object taking slot i.
Create(f, w, i, name, pg) ==
    [Bind(w,
          CASE f = 1 -> [w |-> A_new(w, i, name), exc |-> "none"]
            [] f = 2 -> [w |-> B_new(w, i, name, pg), exc |-> "none"]
            [] OTHER -> C_new(w, i, name),
          i, name)
     EXCEPT !.last.given = pg]

GotValue(w0, r, op, i, x) ==
    Outcome(w0, r.w, op, i, x, w0.proxies[i].name, r.exc, r.value, {}, r.looked)

\* proxy.x
GetAttr(w, i, x) == GotValue(w, GetAttribute(w, i, x), "getattr", i, x)

GotNames(w0, r, i) ==
    Outcome(w0, r.w, "dir", i, "", w0.proxies[i].name, r.exc, ABSENT, r.names, FALSE)

\* dir(proxy)
Dir(w, i) == GotNames(w, DirOf(w, i), i)

GotRepr(w0, r, i) ==
    Outcome(w0, r.w, "repr", i, "", w0.proxies[i].name, r.exc, r.value, {}, FALSE)

\* repr(proxy)
Repr(w, i) == GotRepr(w, ReprOf(w, i), i)

GotReload(w0, r, i) ==
    Outcome(w0, r.w, "reload", i, "", w0.proxies[i].name, r.exc, ABSENT, {}, FALSE)

\* importlib.reload(proxy)
Reload(w, i) == GotReload(w, ReloadOf(w, i), i)

\* The module object registered under name n, when its body has run.
LoadedModule(w, n) ==
    IF w.sys_modules[n].kind = "real" THEN w.sys_modules[n]
    ELSE IF w.sys_modules[n].kind = "proxy"
            /\ w.proxies[w.sys_modules[n].idx].cls = "module"
    THEN w.sys_modules[n]
    ELSE NoRef

\* sys.modules[n].x = v, by code that imported n directly.
SetModuleAttr(w, n, x, v) ==
    [w EXCEPT !.real_dict[n][x] = IF LoadedModule(w, n).kind = "real" THEN v ELSE @,
              !.proxies = IF LoadedModule(w, n).kind = "proxy"
                          THEN [@ EXCEPT ![LoadedModule(w, n).idx].dict[x] = v]
                          ELSE @,
              !.last = [NoResult EXCEPT !.op = "setattr", !.name = n, !.attr = x]]

\* Module n becomes locatable (an optional dependency is installed).
Install(w, n) ==
    [w EXCEPT !.installed = @ \cup {n},
              !.last = [NoResult EXCEPT !.op = "install", !.name = n]]

\* The lowest free slot of a world, 0 when none is free.
FreeSlot(w) ==
    IF \E i \in ProxyIds : w.proxies[i].cls = "none"
    THEN CHOOSE i \in ProxyIds :
            /\ w.proxies[i].cls = "none"
            /\ \A j \in ProxyIds : w.proxies[j].cls = "none" => i <= j
    ELSE 0

\* Whether slot i holds a proxy object.
Created(w, i) == w.proxies[i].cls # "none"

\* ----------------------------------------------------------------- actions

Flavors == {1, 2, 3}

\* Execution contexts (threads) that read attributes of the proxies.
Contexts == {1, 2}

\* A context that is in no attribute read.
Idle ==
    [pc |-> "idle", proxy |-> 0, attr |-> "", module |-> NoRef, exc |-> "none",
     value |-> ABSENT]

Init ==
    /\ environ \in EnvValues \cup {UNSET}
    /\ pc = "start"
    /\ LazyImport = 0
    /\ init_error = [exc |-> "none", shown |-> <<>>, bad |-> 0]
    /\ installed = InitWorld.installed
    /\ sys_modules = InitWorld.sys_modules
    /\ real_dict = InitWorld.real_dict
    /\ exec_count = InitWorld.exec_count
    /\ proxies = InitWorld.proxies
    /\ machinery = InitWorld.machinery
    /\ ns = InitWorld.ns
    /\ last = InitWorld.last
    /\ requests = 0
    /\ variants = [f \in Flavors |-> InitWorld]
    /\ threads = [t \in Contexts |-> Idle]
    /\ import_lock = 0

\* The state becomes world w.
Become(w) ==
    /\ installed' = w.installed
    /\ sys_modules' = w.sys_modules
    /\ real_dict' = w.real_dict
    /\ exec_count' = w.exec_count
    /\ proxies' = w.proxies
    /\ machinery' = w.machinery
    /\ ns' = w.ns
    /\ last' = w.last
    /\ requests < MaxRequests
    /\ requests' = requests + 1
    /\ UNCHANGED <<environ, pc, LazyImport, init_error, variants, threads, import_lock>>

\* `from transformer_engine.lazy_import import LazyImport` in the package's
\* __init__: the module-level code of lazy_import.py runs.
ImportLazyImport ==
    /\ pc = "start"
    /\ LET sel == SelectFlavor(int(EnvironGet))
       IN  /\ LazyImport' = sel.flavor
           /\ init_error' = [exc |-> sel.exc, shown |-> sel.shown, bad |-> sel.bad]
           /\ pc' = IF sel.exc = "none" THEN "ready" ELSE "failed"
    /\ UNCHANGED <<environ, installed, sys_modules, real_dict, exec_count, proxies,
                   machinery, ns, last, requests, variants, threads, import_lock>>

DoCreate ==
    /\ pc = "ready"
    /\ FreeSlot(World) # 0
    /\ \E name \in ProxyNames, pg \in {"", "package"} :
          /\ pg # "" => LazyImport = 2
          /\ Become(Create(LazyImport, World, FreeSlot(World), name, pg))

DoGetAttr ==
    /\ pc = "ready"
    /\ \E i \in ProxyIds, x \in ReadAttrs :
          /\ Created(World, i)
          /\ Become(GetAttr(World, i, x))

DoDir ==
    /\ pc = "ready"
    /\ \E i \in ProxyIds :
          /\ Created(World, i)
          /\ Become(Dir(World, i))

DoRepr ==
    /\ pc = "ready"
    /\ \E i \in ProxyIds :
          /\ Created(World, i)
          /\ Become(Repr(World, i))

DoReload ==
    /\ pc = "ready"
    /\ \E i \in ProxyIds :
          /\ Created(World, i)
          /\ Become(Reload(World, i))

\* Code holding the real module rebinds attr or adds the attribute new.
DoSetModuleAttr ==
    /\ pc = "ready"
    /\ \E n \in ProxyNames :
          /\ LoadedModule(World, n) # NoRef
          /\ \/ /\ DictOf(World, LoadedModule(World, n))["attr"] = IntV(42)
                /\ Become(SetModuleAttr(World, n, "attr", IntV(43)))
             \/ /\ DictOf(World, LoadedModule(World, n))["new"] = ABSENT
                /\ Become(SetModuleAttr(World, n, "new", IntV(7)))

DoInstall ==
    /\ pc = "ready"
    /\ \E n \in ProxyNames \ installed : Become(Install(World, n))

Next ==
    \/ ImportLazyImport
    \/ DoCreate
    \/ DoGetAttr
    \/ DoDir
    \/ DoRepr
    \/ DoReload
    \/ DoSetModuleAttr
    \/ DoInstall

Spec == Init /\ [][Next]_vars

\* ---------------------------------------------- the variants side by side

\* The lowest slot free in all three worlds, 0 when there is none.
CommonFreeSlot ==
    IF \E i \in ProxyIds : \A f \in Flavors : ~Created(variants[f], i)
    THEN CHOOSE i \in ProxyIds :
            /\ \A f \in Flavors : ~Created(variants[f], i)
            /\ \A j \in ProxyIds :
                  (\A f \in Flavors : ~Created(variants[f], j)) => i <= j
    ELSE 0

InAllVariants(i) == \A f \in Flavors : Created(variants[f], i)

Ask ==
    /\ requests < MaxRequests
    /\ requests' = requests + 1
    /\ UNCHANGED <<environ, pc, LazyImport, init_error, installed, sys_modules,
                   real_dict, exec_count, proxies, machinery, ns, last, threads,
                   import_lock>>

VCreate ==
    /\ CommonFreeSlot # 0
    /\ \E name \in ProxyNames :
          variants' = [f \in Flavors |->
                          Create(f, variants[f], CommonFreeSlot, name, "")]
    /\ Ask

VGetAttr ==
    /\ \E i \in ProxyIds, x \in ReadAttrs :
          /\ InAllVariants(i)
          /\ variants' = [f \in Flavors |-> GetAttr(variants[f], i, x)]
    /\ Ask

VDir ==
    /\ \E i \in ProxyIds :
          /\ InAllVariants(i)
          /\ variants' = [f \in Flavors |-> Dir(variants[f], i)]
    /\ Ask

VRepr ==
    /\ \E i \in ProxyIds :
          /\ InAllVariants(i)
          /\ variants' = [f \in Flavors |-> Repr(variants[f], i)]
    /\ Ask

VInstall ==
    /\ \E n \in ProxyNames :
          /\ \A f \in Flavors : n \notin variants[f].installed
          /\ variants' = [f \in Flavors |-> Install(variants[f], n)]
    /\ Ask

NextVariants ==
    \/ VCreate
    \/ VGetAttr
    \/ VDir
    \/ VRepr
    \/ VInstall

\* The same requests sent to variants A, B and C, each in a world of its own.
InitVariants == Init /\ environ = UNSET

SpecVariants == InitVariants /\ [][NextVariants]_vars

\* ------------------------------------------------- concurrent attribute reads

\* Attributes the execution contexts read.
ThreadAttrs == {"__name__", "attr", "zzz"}

\* The state becomes world w by a step of an execution context.
Step(w) ==
    /\ installed' = w.installed
    /\ sys_modules' = w.sys_modules
    /\ real_dict' = w.real_dict
    /\ exec_count' = w.exec_count
    /\ proxies' = w.proxies
    /\ machinery' = w.machinery
    /\ ns' = w.ns
    /\ last' = w.last
    /\ UNCHANGED <<environ, pc, LazyImport, init_error, requests, variants>>

\* Context t is at `at`, the rest of its record kept.
Goto(t, at) == threads' = [threads EXCEPT ![t].pc = at]

\* Context t leaves its attribute read with the outcome r = [exc, value].
Done(t, r) ==
    threads' = [threads EXCEPT ![t].pc = "done", ![t].exc = r.exc, ![t].value = r.value]

\* Context t evaluates proxy.x: the type of the object, as it is now, picks
\* the code that runs. A plain or switched module answers at once, variant B
\* answers from its own __dict__ when it can, and the other cases enter the
\* Python code of the proxy class.
T_call(t) ==
    /\ pc = "ready"
    /\ threads[t].pc = "idle"
    /\ \E i \in ProxyIds, x \in ThreadAttrs :
          /\ Created(World, i)
          /\ LET cls   == proxies[i].cls
                 enter == [threads[t] EXCEPT !.proxy = i, !.attr = x]
             IN  \/ /\ cls = "_LazyImport_FlavorA"
                    /\ threads' = [threads EXCEPT ![t] = [enter EXCEPT !.pc = "import"]]
                 \/ /\ cls = "_LazyImport_FlavorB"
                    /\ proxies[i].dict[x] = ABSENT
                    /\ threads' = [threads EXCEPT ![t] = [enter EXCEPT !.pc = "import"]]
                 \/ /\ cls = "_LazyModule"
                    /\ threads' = [threads EXCEPT ![t] = [enter EXCEPT !.pc = "lazy"]]
                 \/ /\ \/ cls \in {"LoadedLazyImport", "module"}
                       \/ cls = "_LazyImport_FlavorB" /\ proxies[i].dict[x] # ABSENT
                    /\ threads' = [threads EXCEPT ![t] =
                          [enter EXCEPT !.pc = "done",
                                        !.exc = GetAttribute(World, i, x).exc,
                                        !.value = GetAttribute(World, i, x).value]]
    /\ UNCHANGED <<environ, pc, LazyImport, init_error, installed, sys_modules,
                   real_dict, exec_count, proxies, machinery, ns, last, requests,
                   variants, import_lock>>

\* `__import__(name)` (line 60) / `importlib.import_module` (line 104): the
\* import system admits one context at a time to the import of a name.
T_acquire(t) ==
    /\ threads[t].pc = "import"
    /\ import_lock = 0
    /\ import_lock' = t
    /\ Goto(t, "importing")
    /\ UNCHANGED <<environ, pc, LazyImport, init_error, installed, sys_modules,
                   real_dict, exec_count, proxies, machinery, ns, last, requests,
                   variants>>

\* The import returns or raises, and the next context is admitted.
T_import(t) ==
    /\ threads[t].pc = "importing"
    /\ import_lock = t
    /\ import_lock' = 0
    /\ LET i == threads[t].proxy
           r == Import([World EXCEPT !.machinery[i] = @ + 1], proxies[i].name)
       IN  /\ Step(r.w)
           /\ IF r.exc = "none" THEN Goto(t, "imported")
              ELSE Done(t, [exc |-> r.exc, value |-> ABSENT])

\* Lines 67-76 of variant A, lines 105-112 of variant B: the context takes
\* the module from the registry and switches the class of the proxy, or
\* writes the namespace and copies the module's __dict__.
T_switch(t) ==
    /\ threads[t].pc = "imported"
    /\ LET i == threads[t].proxy
           r == IF proxies[i].cls = "_LazyImport_FlavorB"
                THEN B_rebind([w |-> World, exc |-> "none"], i)
                ELSE A_switch([w |-> World, exc |-> "none"], i)
       IN  /\ Step(r.w)
           /\ threads' = [threads EXCEPT ![t].pc = "return", ![t].module = r.module]
    /\ UNCHANGED import_lock

\* Line 79 / line 116: the attribute is read from the module the context holds.
T_return(t) ==
    /\ threads[t].pc = "return"
    /\ Done(t, Forward([w |-> World, exc |-> "none", module |-> threads[t].module],
                       threads[t].attr))
    /\ UNCHANGED <<environ, pc, LazyImport, init_error, installed, sys_modules,
                   real_dict, exec_count, proxies, machinery, ns, last, requests,
                   variants, import_lock>>

\* Variant C, _LazyModule.__getattribute__ entered: the class is reset first.
T_reset(t) ==
    /\ threads[t].pc = "lazy"
    /\ Step(C_class_reset(World, threads[t].proxy))
    /\ Goto(t, "exec")
    /\ UNCHANGED import_lock

\* Variant C: the module body has run.
T_exec(t) ==
    /\ threads[t].pc = "exec"
    /\ Step(C_exec_module(World, threads[t].proxy))
    /\ Goto(t, "loaded")
    /\ UNCHANGED import_lock

\* Variant C: the registry is checked and `getattr(self, attr)` returned.
T_getattr(t) ==
    /\ threads[t].pc = "loaded"
    /\ Done(t, Forward([w |-> World,
                        exc |-> IF C_substituted(World, threads[t].proxy)
                                THEN "ValueError" ELSE "none",
                        module |-> ProxyRef(threads[t].proxy)],
                       threads[t].attr))
    /\ UNCHANGED <<environ, pc, LazyImport, init_error, installed, sys_modules,
                   real_dict, exec_count, proxies, machinery, ns, last, requests,
                   variants, import_lock>>

\* The package creates its proxies before the contexts start to read.
T_create ==
    /\ \A t \in Contexts : threads[t].pc = "idle"
    /\ DoCreate

NextThreads ==
    \/ ImportLazyImport
    \/ T_create
    \/ \E t \in Contexts : T_call(t)
    \/ \E t \in Contexts : T_acquire(t)
    \/ \E t \in Contexts : T_import(t)
    \/ \E t \in Contexts : T_switch(t)
    \/ \E t \in Contexts : T_return(t)
    \/ \E t \in Contexts : T_reset(t)
    \/ \E t \in Contexts : T_exec(t)
    \/ \E t \in Contexts : T_getattr(t)

\* Two execution contexts reading attributes of the proxies, a step of one
\* being what runs between two switches of the interpreter.
SpecThreads == Init /\ [][NextThreads]_vars

\* ------------------------------------------------------------------ claims

\* The request performed last was `op`.
Did(op) == pc = "ready" /\ last.op = op

\* C1: for each of the three variants and every name X, constructing a proxy
\* for X changes no entry of the module registry, runs no module body and
\* makes no import through the proxy.
C1_CreateImportsNothing ==
    (Did("create") /\ last.exc = "none")
        => /\ last.changed = {}
           /\ last.executed = {}
           /\ last.imports = 0

\* C2: for a name X importable from the start, an attribute access on its
\* proxy leaves a loaded entry for X in the registry, and once the proxy is
\* resolved the number of times it entered the import machinery is exactly 1,
\* whatever is read or enumerated later.
C2_OneShotResolution ==
    \A i \in ProxyIds :
        (Created(World, i) /\ proxies[i].name \in InstalledAtStart)
            => /\ (Did("getattr") /\ last.proxy = i)
                     => /\ sys_modules[proxies[i].name] # NoRef
                        /\ exec_count[proxies[i].name] >= 1
               /\ Resolved(proxies[i]) => machinery[i] = 1

\* C3: for a name X that cannot be located, constructing the proxy succeeds,
\* and an attribute access raises what `import X` raises, ModuleNotFoundError,
\* before any attribute is looked up on a module.
C3_DeferredImportError ==
    /\ (Did("create") /\ last.name \notin installed) => last.exc = "none"
    /\ (Did("getattr") /\ last.name \notin installed)
          => /\ last.exc = "ModuleNotFoundError"
             /\ last.exc = DirectImportError(World, last.name)
             /\ ~last.looked

\* C4: a reload request on a resolved proxy fails with ImportError, runs no
\* module body, makes no import and leaves the registry as it was.
C4_ReloadRejected ==
    (Did("reload") /\ last.was_resolved)
        => /\ last.exc = "ImportError"
           /\ last.executed = {}
           /\ last.imports = 0
           /\ last.changed = {}

\* C5: every attribute the real module has reads through the proxy with the
\* value it has on the real module, on the resolving access and on every
\* later one, also after the attribute was rebound or added on the module.
C5_TransparentForwarding ==
    (/\ Did("getattr")
     /\ Resolved(proxies[last.proxy])
     /\ DictOf(World, TargetOf(World, last.proxy))[last.attr] # ABSENT)
        => /\ last.exc = "none"
           /\ last.value = DictOf(World, TargetOf(World, last.proxy))[last.attr]

\* C6: a selector outside {1, 2, 3} makes the import of lazy_import fail at
\* once with a ValueError that names the value, binds no variant and lets no
\* proxy be created; 1, 2 and 3 select variants A, B and C, and an unset
\* selector selects A.
C6_SelectionFailsFast ==
    pc # "start" =>
        IF int(EnvironGet).ok /\ int(EnvironGet).value \in {1, 2, 3}
        THEN /\ pc = "ready"
             /\ LazyImport = int(EnvironGet).value
             /\ init_error.exc = "none"
             /\ environ = UNSET => LazyImport = 1
        ELSE /\ pc = "failed"
             /\ LazyImport = 0
             /\ init_error.exc = "ValueError"
             /\ IF int(EnvironGet).ok
                THEN init_error.bad = int(EnvironGet).value
                ELSE init_error.shown = environ
             /\ requests = 0
             /\ \A i \in ProxyIds : ~Created(World, i)

C6_Witness ==
    /\ pc = "failed"
    /\ environ = <<"9", "9">>
    /\ init_error.exc = "ValueError"
    /\ init_error.bad = 99

\* What a caller and an observer of the interpreter see of a world after a
\* request: the value or names returned, the error raised, the names the
\* registry holds, and the imports made through each proxy.
Observed(w) ==
    [exc |-> w.last.exc, value |-> w.last.value, names |-> w.last.names,
     registry |-> {n \in RegKeys : w.sys_modules[n] # NoRef},
     imports |-> w.machinery]

\* C7: for every name and every sequence of create, attribute-read,
\* enumeration and description requests, variants A, B and C return the same
\* values, raise the same errors at the same request, leave the same names in
\* the registry and make the same number of imports.
C7_VariantsEquivalent ==
    \A f \in Flavors, g \in Flavors : Observed(variants[f]) = Observed(variants[g])

\* C8: the description of an unresolved proxy for N is the pending text
\* "<module 'N' will be lazily loaded>" and asking for it resolves nothing;
\* the description of a resolved proxy is the real module's own, which
\* differs from the pending text.
C8_ReprTransition ==
    Did("repr") =>
        IF ~last.was_resolved
        THEN /\ last.exc = "none"
             /\ last.value = PendingRepr(last.name)
             /\ ~Resolved(proxies[last.proxy])
             /\ last.changed = {}
             /\ last.executed = {}
             /\ last.imports = 0
        ELSE /\ last.exc = "none"
             /\ last.value = RealRepr(World, TargetOf(World, last.proxy))
             /\ last.value # PendingRepr(last.name)

\* C9: an enumeration request on an unresolved proxy for an importable name
\* resolves the proxy as an attribute access does (the registry holds the
\* name, the module body has run, the proxy is Resolved) and returns exactly
\* the attribute names of the real module; no enumeration returns names
\* computed without the import.
C9_DirResolves ==
    /\ (Did("dir") /\ ~last.was_resolved /\ last.name \in installed)
          => /\ last.exc = "none"
             /\ Resolved(proxies[last.proxy])
             /\ sys_modules[last.name] # NoRef
             /\ exec_count[last.name] >= 1
    /\ (Did("dir") /\ last.exc = "none")
          => /\ Resolved(proxies[last.proxy])
             /\ exec_count[last.name] >= 1
             /\ last.names = Keys(DictOf(World, TargetOf(World, last.proxy)))
             /\ Keys(ModuleSource(last.name)) \subseteq last.names

C9_Witness ==
    /\ Did("dir")
    /\ ~last.was_resolved
    /\ last.exc = "none"
    /\ last.name \in last.changed
    /\ "attr" \in last.names

\* Whether the real module of proxy i has no attribute x: the module the
\* proxy resolved to, or, before resolution, the module its import makes.
Lacks(w, i, x) ==
    IF Resolved(w.proxies[i])
    THEN DictOf(w, TargetOf(w, i))[x] = ABSENT
    ELSE ModuleSource(w.proxies[i].name)[x] = ABSENT

ResolvedBy(i) ==
    /\ pc = "ready"
    /\ last.op \in {"getattr", "dir", "repr", "reload"}
    /\ last.proxy = i
    /\ ~last.was_resolved
    /\ Resolved(proxies[i])

\* C11: a proxy that is Resolved stays Resolved under every later request:
\* attribute reads, enumerations, description requests, reload attempts,
\* creations and requests on other proxies; the only change of state a proxy
\* makes is from Unresolved to Resolved.
C11_ResolvedIsTerminal ==
    [][\A i \in ProxyIds : Resolved(proxies[i]) => Resolved(proxies'[i])]_vars

C11_Witness ==
    /\ Did("reload")
    /\ last.was_resolved
    /\ Resolved(proxies[last.proxy])
    /\ \E j \in ProxyIds : j # last.proxy /\ Resolved(proxies[j])

\* C12: an attribute read on an unresolved proxy goes through the import
\* whatever the attribute name, the proxy's own __name__ included, and
\* resolves the proxy when the module can be imported.
C12_AnyReadResolves ==
    (Did("getattr") /\ ~last.was_resolved)
        => /\ last.imports = 1
           /\ last.name \in installed => Resolved(proxies[last.proxy])

\* C13: with two proxies for one name, the first access on the second proxy,
\* made when the first proxy is resolved, finds the registry entry: it runs no
\* module body, changes no registry entry, and both proxies then stand for
\* the same module object.
C13_NoDoubleImport ==
    \A i \in ProxyIds, j \in ProxyIds :
        (/\ i # j
         /\ Created(World, i)
         /\ proxies[i].name = proxies[j].name
         /\ Resolved(proxies[i])
         /\ ResolvedBy(j))
            => /\ last.executed = {}
               /\ last.changed = {}
               /\ TargetOf(World, i) = TargetOf(World, j)

\* C14: a proxy for a.b.c resolves to the registry entry stored under a.b.c,
\* not to the top-level package a; the module it stands for is named a.b.c,
\* the resolving read of attr returns the value attr has in module a.b.c,
\* and the registry then holds a, a.b and a.b.c.
C14_DottedNameLeaf ==
    \A i \in ProxyIds :
        (ResolvedBy(i) /\ proxies[i].name = ABC)
            => /\ TargetOf(World, i) = sys_modules[ABC]
               /\ TargetOf(World, i) # sys_modules[Prefix(ABC, 1)]
               /\ DictOf(World, TargetOf(World, i))["__name__"] = StrV(ABC)
               /\ \A k \in 1..Len(ABC) : sys_modules[Prefix(ABC, k)] # NoRef
               /\ (last.op = "getattr" /\ last.attr = "attr")
                     => /\ last.exc = "none"
                        /\ last.value = DictOf(World, sys_modules[ABC])["attr"]

C14_Witness ==
    \E i \in ProxyIds :
        /\ ResolvedBy(i)
        /\ proxies[i].name = ABC
        /\ last.op = "getattr"
        /\ last.attr = "attr"
        /\ last.value = IntV(42)
        /\ {<<"a">>, <<"a", "b">>, ABC} \subseteq last.changed

\* The step is an attribute read, the request performed being the new `last`.
ReadStep == pc = "ready" /\ requests' = requests + 1 /\ last'.op = "getattr"

\* C16: an attribute read whose import raises leaves the proxy object as it
\* was (Unresolved, same name, same description) and the registry without a
\* new entry; every later read on that proxy goes through the import again,
\* and once the module can be located that read resolves the proxy and
\* returns the attribute of the real module.
C16_FailedResolutionRetried ==
    [][ReadStep =>
          /\ last'.exc = "ModuleNotFoundError"
                => /\ proxies' = proxies
                   /\ sys_modules' = sys_modules
                   /\ exec_count' = exec_count
                   /\ ~Resolved(proxies'[last'.proxy])
          /\ (~last'.was_resolved /\ machinery[last'.proxy] >= 1)
                => /\ machinery'[last'.proxy] = machinery[last'.proxy] + 1
                   /\ last'.name \in installed
                         => /\ Resolved(proxies'[last'.proxy])
                            /\ real_dict'[last'.name][last'.attr] # ABSENT
                                  => /\ last'.exc = "none"
                                     /\ last'.value = real_dict'[last'.name][last'.attr]
       ]_vars

Raced(t, u, i) ==
    /\ t # u
    /\ threads[t].pc = "done" /\ threads[u].pc = "done"
    /\ threads[t].proxy = i /\ threads[u].proxy = i
    /\ proxies[i].name \in installed
    /\ ModuleSource(proxies[i].name)[threads[t].attr] # ABSENT
    /\ ModuleSource(proxies[i].name)[threads[u].attr] # ABSENT

\* C15: when two execution contexts have made their first attribute read on
\* the same proxy, under any interleaving of their steps, the module body
\* has run exactly once, each context got the value the attribute has on the
\* real module and no error, and the proxy is Resolved.
C15_ConcurrentFirstAccess ==
    \A t \in Contexts, u \in Contexts, i \in ProxyIds :
        Raced(t, u, i)
            => /\ exec_count[proxies[i].name] = 1
               /\ threads[t].exc = "none"
               /\ threads[t].value = ModuleSource(proxies[i].name)[threads[t].attr]
               /\ Resolved(proxies[i])

====
